---- MODULE Spec2Model ----
(***************************************************************************)
(* Model of the focus session store (store/store.go, src/internal/db.go):  *)
(* the RFC3339 key codec, the "sessions" bucket with its cursor range scan *)
(* and the single-slot "timer" bucket holding the interrupted timer.       *)
(***************************************************************************)
EXTENDS Integers, Sequences, FiniteSets, TLC

VARIABLES
    sessions,   \* the "sessions" bucket: key bytes -> JSON value
    timer,      \* the "timer" bucket: bucket key -> value
    lastSave,   \* history: arguments of the SaveTimer call whose snapshot is stored
    ret,        \* the last call: its name, arguments and returned values
    codec,      \* the key codec applied to a pair of start times
    procs,      \* per process: the bolt database it holds open (file lock)
                \* and the Client its last open call gave it
    focus,      \* the "focus" bucket: version marker and migrated keys
    migrated,   \* history: the migration ran in an open that succeeded
    machine,    \* the pomodoro timer of app.go
    tui         \* the timer.Timer model driven by Timer.Update

vars == <<sessions, timer, lastSave, ret, codec, procs, focus, migrated,
          machine, tui>>

\* what the operations of the session store and of the codec leave alone
others == <<procs, focus, migrated, machine, tui>>

----------------------------------------------------------------------------
(* Bounds *)

MaxHour == 3        \* start times lie on the hours 1..MaxHour (UTC) of one day
MaxRecords == 2     \* records held by the sessions bucket
MaxDelete == 2      \* sessions named by one DeleteSessions call
MaxWorkCycle == 1   \* work cycle stored in a timer snapshot
MaxInterval == 3    \* long break interval set in the configuration file
MaxPomodoros == 3   \* value of the max-pomodoros flag
MaxCounter == 10    \* sessions one run of the timer starts
MaxCurrent == 3     \* sessions the timer of Timer.Update goes through
MaxFlags == 1       \* flags given to the timer command
MaxBatch == 2       \* entries of the map given to UpdateSessions

----------------------------------------------------------------------------
(* time.Time: an instant (UTC hour h plus a sub-second part ns) shown in a *)
(* zone that is off hours east of UTC.                                     *)

Offsets == {-1, 0}

Time(h, ns, off) == [h |-> h, ns |-> ns, off |-> off]

\* time.Time{}: year 1, before every other time of the model
ZeroTime == Time(0, 0, 0)

\* start times of stored sessions and bounds of queries: the whole hours in
\* UTC, and the last hour as shown one zone to the west
Times == {Time(h, 0, 0) : h \in 1..MaxHour} \cup {Time(MaxHour, 0, -1)}

\* start times given to the codec: with and without a sub-second part
CodecTimes == {Time(h, ns, off) : h \in 1..MaxHour, ns \in {0, 1}, off \in Offsets}

\* position of the instant on the time line, zone left out
Instant(t) == 2 * t.h + t.ns

After(t, u) == Instant(t) > Instant(u)

Before(t, u) == Instant(t) < Instant(u)

Equal(t, u) == Instant(t) = Instant(u)

\* zone suffix of the layout "Z07:00": "Z" for UTC, else sign, hours, minutes
ZoneSuffix(off) ==
    IF off = 0 THEN <<90>>
    ELSE <<(IF off < 0 THEN 45 ELSE 43),
           48 + ((IF off < 0 THEN -off ELSE off) \div 10),
           48 + ((IF off < 0 THEN -off ELSE off) % 10),
           58, 48, 48>>

\* t.Format(time.RFC3339) of a time of the model day: the two digits of the
\* wall-clock hour in the zone of t, then the zone suffix. The date and the
\* ":00:00" of minutes and seconds are the same bytes for every time of the
\* model and are left out; the layout has no fractional seconds, so ns is
\* not printed
FormatRFC3339(t) ==
    LET wall == t.h + t.off
    IN  <<48 + (wall \div 10), 48 + (wall % 10)>> \o ZoneSuffix(t.off)

\* bytes.Compare: -1, 0 or 1
RECURSIVE BytesCompare(_, _)
BytesCompare(x, y) ==
    IF x = <<>> /\ y = <<>> THEN 0
    ELSE IF x = <<>> THEN -1
    ELSE IF y = <<>> THEN 1
    ELSE IF Head(x) < Head(y) THEN -1
    ELSE IF Head(x) > Head(y) THEN 1
    ELSE BytesCompare(Tail(x), Tail(y))

----------------------------------------------------------------------------
(* errors *)

NoErr == "nil"

ErrIO == "io failure"

----------------------------------------------------------------------------
(* session.Session and its JSON value *)

Session(start, end, tags) == [StartTime |-> start, EndTime |-> end, Tags |-> tags]

\* json.Marshal(sess): RFC3339Nano keeps the instant and the zone of a time
Marshal(sess) == <<"session", sess.StartTime, sess.EndTime, sess.Tags>>

Unmarshal(v) == Session(v[2], v[3], v[4])

\* bytes that are not the JSON of a session
Garbage == <<"garbage">>

ErrDecode == "json: cannot unmarshal"

\* the error of json.Unmarshal(v, &sess)
UnmarshalErr(v) == IF v[1] = "session" THEN NoErr ELSE ErrDecode

\* the key of a session record
SessionKey(sess) == FormatRFC3339(sess.StartTime)

----------------------------------------------------------------------------
(* bolt bucket and cursor: a bucket is a function from keys to values, the *)
(* cursor walks its keys in byte order; position 0 and positions past the  *)
(* last key have no element (nil key).                                     *)

Nil == <<>>

EmptyBucket == [k \in {} |-> Nil]

BucketPut(b, k, v) == [x \in DOMAIN b \cup {k} |-> IF x = k THEN v ELSE b[x]]

BucketDelete(b, k) == [x \in DOMAIN b \ {k} |-> b[x]]

RECURSIVE SortedKeys(_)
SortedKeys(S) ==
    IF S = {} THEN <<>>
    ELSE LET m == CHOOSE k \in S : \A x \in S : BytesCompare(k, x) <= 0
         IN  <<m>> \o SortedKeys(S \ {m})

HasElem(keys, pos) == pos >= 1 /\ pos <= Len(keys)

\* Cursor.Seek: the first key >= seek, else past the end
CursorSeek(keys, seek) ==
    IF \E i \in 1..Len(keys) : BytesCompare(keys[i], seek) >= 0
    THEN CHOOSE i \in 1..Len(keys) :
            /\ BytesCompare(keys[i], seek) >= 0
            /\ \A j \in 1..(i - 1) : BytesCompare(keys[j], seek) < 0
    ELSE Len(keys) + 1

\* Cursor.Prev: one element back, nil before the first
CursorPrev(keys, pos) == IF pos > 1 THEN pos - 1 ELSE 0

\* Cursor.Next: one element on, nil after the last
CursorNext(keys, pos) == IF pos < Len(keys) THEN pos + 1 ELSE Len(keys) + 1

\* db.Update(fn): the writes of fn are committed when fn returns nil and the
\* commit reaches the disk; otherwise the transaction is rolled back
Update(old, tx, commitFault) ==
    IF tx.err = NoErr /\ ~commitFault
    THEN [b |-> tx.b, err |-> NoErr]
    ELSE [b |-> old, err |-> IF tx.err # NoErr THEN tx.err ELSE ErrIO]

----------------------------------------------------------------------------
(* Client.UpdateSession *)

\* variant: a record that exists already is kept
UpdateSessionTxKeepFirst(b, sess, faultAt) ==
    IF faultAt = 1
    THEN [b |-> b, err |-> ErrIO]
    ELSE [b |-> IF SessionKey(sess) \in DOMAIN b THEN b
                ELSE BucketPut(b, SessionKey(sess), Marshal(sess)),
          err |-> NoErr]

\* the closure given to c.Update: one Put under the key of the start time
UpdateSessionTx(b, sess, faultAt) ==
    IF faultAt = 1
    THEN [b |-> b, err |-> ErrIO]
    ELSE [b |-> BucketPut(b, SessionKey(sess), Marshal(sess)), err |-> NoErr]

----------------------------------------------------------------------------
(* Client.DeleteSessions *)

\* variant: Delete of a key that is not in the bucket fails
RECURSIVE DeleteSessionsTxStrict(_, _, _, _)
DeleteSessionsTxStrict(b, startTimes, i, faultAt) ==
    IF i > Len(startTimes) THEN [b |-> b, err |-> NoErr]
    ELSE IF i = faultAt THEN [b |-> b, err |-> ErrIO]
    ELSE IF FormatRFC3339(startTimes[i]) \notin DOMAIN b
         THEN [b |-> b, err |-> "key not found"]
    ELSE DeleteSessionsTxStrict(BucketDelete(b, FormatRFC3339(startTimes[i])),
                                startTimes, i + 1, faultAt)

\* variant: the error of a failing Delete is dropped and the loop goes on
RECURSIVE DeleteSessionsTxSwallow(_, _, _, _)
DeleteSessionsTxSwallow(b, startTimes, i, faultAt) ==
    IF i > Len(startTimes) THEN [b |-> b, err |-> NoErr]
    ELSE IF i = faultAt
         THEN DeleteSessionsTxSwallow(b, startTimes, i + 1, faultAt)
    ELSE DeleteSessionsTxSwallow(BucketDelete(b, FormatRFC3339(startTimes[i])),
                                 startTimes, i + 1, faultAt)

\* the closure given to c.Update: Delete of each named key in turn, the
\* first failing Delete ends the loop with its error; Delete of a key that
\* is not in the bucket is not an error
RECURSIVE DeleteSessionsTx(_, _, _, _)
DeleteSessionsTx(b, startTimes, i, faultAt) ==
    IF i > Len(startTimes) THEN [b |-> b, err |-> NoErr]
    ELSE IF i = faultAt THEN [b |-> b, err |-> ErrIO]
    ELSE DeleteSessionsTx(BucketDelete(b, FormatRFC3339(startTimes[i])),
                          startTimes, i + 1, faultAt)

----------------------------------------------------------------------------
(* Client.GetSessions *)

\* slices.Contains
Contains(s, e) == \E i \in 1..Len(s) : s[i] = e

\* variant: a session that ended exactly at startTime counts as well
EndedAtOrAfter(sess, startTime) == ~Before(sess.EndTime, startTime)

\* sess.EndTime.After(startTime)
EndedAfter(sess, startTime) == After(sess.EndTime, startTime)

\* variant: the upper bound is exclusive
InScanExclusive(keys, pos, max) ==
    HasElem(keys, pos) /\ BytesCompare(keys[pos], max) < 0

\* loop condition: k != nil && bytes.Compare(k, max) <= 0
InScan(keys, pos, max) == HasElem(keys, pos) /\ BytesCompare(keys[pos], max) <= 0

\* the inner loop over sess.Tags: v is appended once for each tag of the
\* session that the filter contains
RECURSIVE AppendPerTag(_, _, _)
AppendPerTag(sessTags, tags, v) ==
    IF sessTags = <<>> THEN <<>>
    ELSE (IF Contains(tags, Head(sessTags)) THEN <<v>> ELSE <<>>)
            \o AppendPerTag(Tail(sessTags), tags, v)

\* variant: the tag filter is not applied
CollectIgnoringTags(v, tags) == <<v>>

\* what one record adds to the result
Collect(v, tags) ==
    IF Len(tags) # 0 THEN AppendPerTag(Unmarshal(v).Tags, tags, v) ELSE <<v>>

\* the scan loop from the cursor position pos: the values collected and
\* the error that ended the loop; with a tag filter each record is decoded
\* and a record that does not decode ends the loop, the values collected
\* before it stay in the slice the closure appends to
RECURSIVE ScanFrom(_, _, _, _, _)
ScanFrom(b, keys, pos, max, tags) ==
    IF ~InScan(keys, pos, max) THEN [vals |-> <<>>, err |-> NoErr]
    ELSE IF Len(tags) # 0 /\ UnmarshalErr(b[keys[pos]]) # NoErr
    THEN [vals |-> <<>>, err |-> ErrDecode]
    ELSE LET rest == ScanFrom(b, keys, CursorNext(keys, pos), max, tags)
         IN  [vals |-> Collect(b[keys[pos]], tags) \o rest.vals, err |-> rest.err]

\* the record before Seek(min) is stored and does not decode
PrevDecodeErr(b, keys, startTime) ==
    LET pk == CursorPrev(keys, CursorSeek(keys, FormatRFC3339(startTime)))
    IN  HasElem(keys, pk) /\ UnmarshalErr(b[keys[pk]]) # NoErr

\* where the scan starts: Seek(min), then Prev; the previous session is the
\* start when it ended after startTime, else the cursor goes back to Next;
\* without a previous key the cursor is set by a second Seek(min)
StartPos(b, keys, startTime) ==
    LET min == FormatRFC3339(startTime)
        sk  == CursorSeek(keys, min)
        pk  == CursorPrev(keys, sk)
    IN  IF HasElem(keys, pk)
        THEN IF EndedAfter(Unmarshal(b[keys[pk]]), startTime)
             THEN pk
             ELSE CursorNext(keys, pk)
        ELSE CursorSeek(keys, min)

\* the loop after the View: each collected value is decoded with
\* err = json.Unmarshal(v, &sess), which assigns the variable that holds the
\* error of the View; the first value that does not decode returns nil and
\* its error, and after the loop s is returned with err
RECURSIVE DecodeAll(_, _, _, _)
DecodeAll(vals, i, s, err) ==
    IF i > Len(vals) THEN [out |-> s, err |-> err]
    ELSE IF UnmarshalErr(vals[i]) # NoErr THEN [out |-> <<>>, err |-> ErrDecode]
    ELSE DecodeAll(vals, i + 1, Append(s, Unmarshal(vals[i])), NoErr)

\* the View closure and the decoding of the collected values
GetSessionsView(b, startTime, endTime, tags) ==
    LET keys == SortedKeys(DOMAIN b)
        max  == FormatRFC3339(endTime)
        view == IF PrevDecodeErr(b, keys, startTime)
                THEN [vals |-> <<>>, err |-> ErrDecode]
                ELSE ScanFrom(b, keys, StartPos(b, keys, startTime), max, tags)
    IN  DecodeAll(view.vals, 1, <<>>, view.err)

\* what one record adds to the result of the second version, whose loop has
\* decoded it
CollectV2(v, tags) ==
    IF Len(tags) # 0
    THEN AppendPerTag(Unmarshal(v).Tags, tags, Unmarshal(v))
    ELSE <<Unmarshal(v)>>

\* the scan loop of the second version: every record is decoded, a record
\* that does not decode ends the loop with its error
RECURSIVE ScanFromV2(_, _, _, _, _)
ScanFromV2(b, keys, pos, max, tags) ==
    IF ~InScan(keys, pos, max) THEN [out |-> <<>>, err |-> NoErr]
    ELSE IF UnmarshalErr(b[keys[pos]]) # NoErr
    THEN [out |-> <<>>, err |-> ErrDecode]
    ELSE LET rest == ScanFromV2(b, keys, CursorNext(keys, pos), max, tags)
         IN  [out |-> CollectV2(b[keys[pos]], tags) \o rest.out, err |-> rest.err]

\* the View closure of the second version; result and err are returned as
\* the closure left them
GetSessionsViewV2(b, since, until, tags) ==
    LET keys == SortedKeys(DOMAIN b)
        max  == FormatRFC3339(until)
    IN  IF PrevDecodeErr(b, keys, since)
        THEN [out |-> <<>>, err |-> ErrDecode]
        ELSE ScanFromV2(b, keys, StartPos(b, keys, since), max, tags)

----------------------------------------------------------------------------
(* Store.getSessions (src/internal/db.go): the plain range scan *)

getSessionsView(b, startTime, endTime) ==
    LET keys == SortedKeys(DOMAIN b)
        min  == FormatRFC3339(startTime)
        max  == FormatRFC3339(endTime)
    IN  [out |-> ScanFrom(b, keys, CursorSeek(keys, min), max, <<>>).vals,
         err |-> NoErr]

----------------------------------------------------------------------------
(* The timer bucket: Client.SaveTimer, Client.GetInterrupted,              *)
(* Client.DeleteTimer                                                      *)

TimerKey == "timer"

InterruptedSessionKey == "interrrupted_session_key"

ErrNoPausedSession == "errNoPausedSession"

\* Bucket.Get: nil for a key that is not in the bucket
BucketGet(b, k) == IF k \in DOMAIN b THEN b[k] ELSE Nil

\* json.Marshal(timerState{opts, workCycle}) and json.Unmarshal of it
MarshalTimer(opts, workCycle) == <<"timerState", opts, workCycle>>

UnmarshalTimer(v) == [Opts |-> v[2], WorkCycle |-> v[3]]

\* variant: a snapshot that is stored already is kept
SaveTimerTxKeepFirst(b, value, sessionKey, faultAt) ==
    IF faultAt = 1 THEN [b |-> b, err |-> ErrIO]
    ELSE IF faultAt = 2 THEN [b |-> b, err |-> ErrIO]
    ELSE IF TimerKey \in DOMAIN b THEN [b |-> b, err |-> NoErr]
    ELSE [b |-> BucketPut(BucketPut(b, TimerKey, value),
                          InterruptedSessionKey, sessionKey),
          err |-> NoErr]

\* variant: the error of the second Put is dropped
SaveTimerTxIgnoreErr(b, value, sessionKey, faultAt) ==
    IF faultAt = 1 THEN [b |-> b, err |-> ErrIO]
    ELSE LET b1 == BucketPut(b, TimerKey, value)
         IN  IF faultAt = 2
             THEN [b |-> b1, err |-> NoErr]
             ELSE [b |-> BucketPut(b1, InterruptedSessionKey, sessionKey),
                   err |-> NoErr]

\* the closure of SaveTimer: the snapshot, then the session key, each Put
\* ending the transaction with its error when it fails
SaveTimerTx(b, value, sessionKey, faultAt) ==
    IF faultAt = 1 THEN [b |-> b, err |-> ErrIO]
    ELSE LET b1 == BucketPut(b, TimerKey, value)
         IN  IF faultAt = 2
             THEN [b |-> b1, err |-> ErrIO]
             ELSE [b |-> BucketPut(b1, InterruptedSessionKey, sessionKey),
                   err |-> NoErr]

\* the closure of DeleteTimer: both keys are deleted
DeleteTimerTx(b, faultAt) ==
    IF faultAt = 1 THEN [b |-> b, err |-> ErrIO]
    ELSE LET b1 == BucketDelete(b, TimerKey)
         IN  IF faultAt = 2
             THEN [b |-> b1, err |-> ErrIO]
             ELSE [b |-> BucketDelete(b1, InterruptedSessionKey), err |-> NoErr]

\* variant: a snapshot whose session record is not stored counts as no
\* paused session
GetInterruptedViewStrict(tb, sb) ==
    LET timerBytes == BucketGet(tb, TimerKey)
        sessBytes  == BucketGet(sb, BucketGet(tb, InterruptedSessionKey))
    IN  IF Len(timerBytes) = 0 \/ Len(sessBytes) = 0
        THEN [opts |-> <<>>, sess |-> <<>>, workCycle |-> 0,
              err |-> ErrNoPausedSession]
        ELSE [opts |-> <<UnmarshalTimer(timerBytes).Opts>>,
              sess |-> <<Unmarshal(sessBytes)>>,
              workCycle |-> UnmarshalTimer(timerBytes).WorkCycle,
              err |-> NoErr]

\* the View closure of GetInterrupted: opts and sess are nil (<<>>) unless
\* found, a snapshot without its session record is not an error
GetInterruptedView(tb, sb) ==
    LET timerBytes == BucketGet(tb, TimerKey)
    IN  IF Len(timerBytes) = 0
        THEN [opts |-> <<>>, sess |-> <<>>, workCycle |-> 0,
              err |-> ErrNoPausedSession]
        ELSE LET t          == UnmarshalTimer(timerBytes)
                 sessionKey == BucketGet(tb, InterruptedSessionKey)
                 sessBytes  == BucketGet(sb, sessionKey)
             IN  [opts |-> <<t.Opts>>,
                  sess |-> IF Len(sessBytes) = 0 THEN <<>>
                           ELSE <<Unmarshal(sessBytes)>>,
                  workCycle |-> t.WorkCycle,
                  err |-> NoErr]

----------------------------------------------------------------------------
(* Opening the database: bolt.Open and its file lock, then openDB, Open    *)
(* and NewClient of the two versions of store/store.go and Store.init of   *)
(* src/internal/db.go.                                                     *)

Procs == {1, 2}

\* a process without a database
Closed == [db |-> FALSE, client |-> "nil"]

\* a process whose Client wraps the open database
Holder == [db |-> TRUE, client |-> "client"]

ErrTimeout == "bolt.ErrTimeout"

ErrDatabaseOpen == "bolt.ErrDatabaseOpen"

ErrFocusRunning == "errFocusRunning"

ErrPanic == "panic: nil pointer dereference"

\* an open database holds the lock on the file
LockHeld(ps) == \E q \in Procs : ps[q].db

\* where bolt.Open meets an I/O failure: nowhere, when it opens the file
\* (before the lock is taken), or when it reads the file under the lock
BoltFaults == {"none", "file", "meta"}

\* bolt.Open(path, mode, &bolt.Options{Timeout: 1 * time.Second}): the file
\* lock is tried for one second and the call ends with ErrTimeout when
\* another open database holds it; db is TRUE for a database that is open
BoltOpen(held, fault) ==
    IF fault = "file" THEN [db |-> FALSE, err |-> ErrIO]
    ELSE IF held THEN [db |-> FALSE, err |-> ErrTimeout]
    ELSE IF fault = "meta" THEN [db |-> FALSE, err |-> ErrIO]
    ELSE [db |-> TRUE, err |-> NoErr]

\* variant: the error of bolt.Open is returned as it is
openDBRawErr(held, fault) == BoltOpen(held, fault)

\* openDB of the first version
openDB(held, fault) ==
    LET r == BoltOpen(held, fault)
    IN  IF r.err # NoErr
        THEN IF r.err \in {ErrDatabaseOpen, ErrTimeout}
             THEN [db |-> FALSE, err |-> ErrFocusRunning]
             ELSE [db |-> FALSE, err |-> r.err]
        ELSE [db |-> r.db, err |-> NoErr]

\* openDB of the second version: an error that is not ErrTimeout is dropped
\* and the nil database is returned with a nil error
openDBV2(held, fault) ==
    LET r == BoltOpen(held, fault)
    IN  IF r.err # NoErr /\ r.err = ErrTimeout
        THEN [db |-> FALSE, err |-> ErrFocusRunning]
        ELSE [db |-> r.db, err |-> NoErr]

\* the Client a process holds after *c = Client{db}
ClientOf(db) == [db |-> db, client |-> IF db THEN "client" ELSE "nildb"]

\* a process holds a Client on the open database
Opened == \E p \in Procs : procs[p] = Holder

----------------------------------------------------------------------------
(* The schema guard of NewClient (second version) *)

VersionKey == "version"

\* config.Version of the running build, and the marker of an older build
ConfigVersion == "v-current"

OlderVersion == "v-older"

\* string(bucket.Get([]byte("version"))): empty without a marker
VersionOf(fb) == IF VersionKey \in DOMAIN fb THEN fb[VersionKey] ELSE ""

\* the legacy keys, in the order the migration takes them
LegacyKeys == <<TimerKey, InterruptedSessionKey>>

\* the name of a legacy key in the current naming scheme
CurrentName(k) == IF k = TimerKey THEN "timer_state" ELSE "session_key"

\* the migration of one key after another: the value is put under the
\* current name in the focus bucket and the legacy key is deleted; n counts
\* the writes made so far, the write numbered faultAt fails
RECURSIVE MigrateKeys(_, _, _, _, _)
MigrateKeys(tb, fb, keys, n, faultAt) ==
    IF keys = <<>> THEN [tb |-> tb, fb |-> fb, err |-> NoErr, writes |-> n]
    ELSE IF faultAt = n + 1
         THEN [tb |-> tb, fb |-> fb, err |-> ErrIO, writes |-> n]
    ELSE LET fb1 == BucketPut(fb, CurrentName(Head(keys)), tb[Head(keys)])
         IN  IF faultAt = n + 2
             THEN [tb |-> tb, fb |-> fb1, err |-> ErrIO, writes |-> n + 1]
             ELSE MigrateKeys(BucketDelete(tb, Head(keys)), fb1, Tail(keys),
                              n + 2, faultAt)

\* c.migrateV1_4_0(tx): the legacy keys that are stored are moved, inside
\* the transaction of the caller
migrateV1_4_0(tb, fb, faultAt) ==
    MigrateKeys(tb, fb, SelectSeq(LegacyKeys, LAMBDA k : k \in DOMAIN tb),
                0, faultAt)

\* variant: the migration runs whenever the marker differs from the version
\* of the build
SchemaGuardTxAnyChange(tb, fb, faultAt) ==
    LET version == VersionOf(fb)
        ran     == version # ConfigVersion
        m       == IF ran THEN migrateV1_4_0(tb, fb, faultAt)
                   ELSE [tb |-> tb, fb |-> fb, err |-> NoErr, writes |-> 0]
        log     == IF ran THEN <<"migrate">> ELSE <<>>
    IN  IF m.err # NoErr \/ faultAt = m.writes + 1 \/ ~ran
        THEN [tb |-> m.tb, fb |-> m.fb, writes |-> m.writes, ran |-> ran,
              log |-> log, err |-> IF ran THEN ErrIO ELSE NoErr]
        ELSE [tb |-> m.tb, fb |-> BucketPut(m.fb, VersionKey, ConfigVersion),
              writes |-> m.writes + 1, ran |-> ran,
              log |-> Append(log, "version"), err |-> NoErr]

\* the closure of the second db.Update of NewClient: the migration when no
\* marker is stored, then the Put of the marker when it differs from the
\* version of the build; log lists what the transaction did, in order
SchemaGuardTx(tb, fb, faultAt) ==
    LET version == VersionOf(fb)
        ran     == version = ""
        m       == IF ran THEN migrateV1_4_0(tb, fb, faultAt)
                   ELSE [tb |-> tb, fb |-> fb, err |-> NoErr, writes |-> 0]
        log     == IF ran THEN <<"migrate">> ELSE <<>>
    IN  IF m.err # NoErr
        THEN [tb |-> m.tb, fb |-> m.fb, writes |-> m.writes, ran |-> ran,
              log |-> log, err |-> m.err]
        ELSE IF version # ConfigVersion
        THEN IF faultAt = m.writes + 1
             THEN [tb |-> m.tb, fb |-> m.fb, writes |-> m.writes, ran |-> ran,
                   log |-> log, err |-> ErrIO]
             ELSE [tb |-> m.tb,
                   fb |-> BucketPut(m.fb, VersionKey, ConfigVersion),
                   writes |-> m.writes + 1, ran |-> ran,
                   log |-> Append(log, "version"), err |-> NoErr]
        ELSE [tb |-> m.tb, fb |-> m.fb, writes |-> m.writes, ran |-> ran,
              log |-> log, err |-> NoErr]

\* db.Update of a closure that writes two buckets: both are committed when
\* the closure returns nil and the commit, the write after the last write of
\* the closure, does not fail; otherwise both are rolled back
UpdateBoth(oldT, oldF, tx, faultAt) ==
    IF tx.err = NoErr /\ faultAt # tx.writes + 1
    THEN [tb |-> tx.tb, fb |-> tx.fb, err |-> NoErr]
    ELSE [tb |-> oldT, fb |-> oldF,
          err |-> IF tx.err # NoErr THEN tx.err ELSE ErrIO]

----------------------------------------------------------------------------
(* The pomodoro timer of app.go: newTimer, nextSession, start. start runs  *)
(* one session and calls itself for the next one; it blocks in the         *)
(* countdown and in the read of ENTER, where the model splits it.          *)

pomodoro == "pomodoro"

shortBreak == "shortBreak"

longBreak == "longBreak"

DefaultLongBreakInterval == 4

\* variant: a long break interval that is not positive is left as it is
newTimerNoDefault(ctx, c) ==
    [pc                |-> "new",
     currentSession    |-> pomodoro,
     longBreakInterval |-> IF ctx.longBreakInterval > 0 THEN ctx.longBreakInterval
                           ELSE c.LongBreakInterval,
     maxPomodoros      |-> IF ctx.maxPomodoros > 0 THEN ctx.maxPomodoros ELSE 0,
     autoStartPomodoro |-> (c.AutoStartPomorodo \/ ctx.autoPomodoro),
     autoStartBreak    |-> (c.AutoStartBreak \/ ctx.autoBreak),
     counter           |-> 0,
     iteration         |-> 0,
     works             |-> 0,
     log               |-> <<>>]

\* newTimer(ctx, c): the values of the configuration file, overridden by the
\* command-line flags that are set; a long break interval that is not
\* positive becomes 4. The fields counter, iteration and currentSession have
\* their zero values. log is history: the sessions started, each with the
\* iteration it started with; works counts the pomodoros that ran to their
\* end
newTimer(ctx, c) ==
    LET interval == IF ctx.longBreakInterval > 0 THEN ctx.longBreakInterval
                    ELSE c.LongBreakInterval
    IN  [pc                |-> "new",
         currentSession    |-> pomodoro,
         longBreakInterval |-> IF interval <= 0 THEN DefaultLongBreakInterval
                               ELSE interval,
         maxPomodoros      |-> IF ctx.maxPomodoros > 0 THEN ctx.maxPomodoros ELSE 0,
         autoStartPomodoro |-> (c.AutoStartPomorodo \/ ctx.autoPomodoro),
         autoStartBreak    |-> (c.AutoStartBreak \/ ctx.autoBreak),
         counter           |-> 0,
         iteration         |-> 0,
         works             |-> 0,
         log               |-> <<>>]

\* variant: the long break comes one pomodoro early
nextSessionEarly(t) ==
    IF t.currentSession = pomodoro
    THEN IF t.iteration + 1 >= t.longBreakInterval THEN longBreak ELSE shortBreak
    ELSE pomodoro

\* nextSession
nextSession(t) ==
    IF t.currentSession = pomodoro
    THEN IF t.iteration = t.longBreakInterval THEN longBreak ELSE shortBreak
    ELSE pomodoro

\* variant: the iteration is not set back after a long break
StartNoReset(t, session) ==
    [t EXCEPT !.pc = "countdown",
              !.currentSession = session,
              !.counter = t.counter + 1,
              !.iteration = IF session = pomodoro THEN t.iteration + 1
                            ELSE t.iteration,
              !.log = Append(t.log,
                        [session |-> session,
                         iteration |-> IF session = pomodoro THEN t.iteration + 1
                                       ELSE t.iteration])]

\* start(session) up to its countdown: the session becomes the current one,
\* the counter goes up for every session, the iteration goes up for a
\* pomodoro and starts again at 1 after it has reached the interval
Start(t, session) ==
    LET iteration == IF session = pomodoro
                     THEN IF t.iteration = t.longBreakInterval THEN 1
                          ELSE t.iteration + 1
                     ELSE t.iteration
    IN  [t EXCEPT !.pc = "countdown",
                  !.currentSession = session,
                  !.counter = t.counter + 1,
                  !.iteration = iteration,
                  !.log = Append(t.log, [session |-> session,
                                         iteration |-> iteration])]

\* variant: the two auto-start flags are taken for each other
WaitsForEnterSwapped(t) ==
    \/ t.currentSession # pomodoro /\ ~t.autoStartBreak
    \/ t.currentSession = pomodoro /\ ~t.autoStartPomodoro

\* the condition under which start waits for ENTER before the next session
WaitsForEnter(t) ==
    \/ t.currentSession # pomodoro /\ ~t.autoStartPomodoro
    \/ t.currentSession = pomodoro /\ ~t.autoStartBreak

----------------------------------------------------------------------------
(* Timer.Update of timer/sound.go: the handler of the messages of the      *)
(* terminal program. A Timer is modelled by the number of its current      *)
(* session, the state of its clock, and the session records it has stored. *)

soundView == "sound"

Msgs ==
    {[type |-> "TickMsg"], [type |-> "TimeoutMsg"],
     [type |-> "StartStopMsg", running |-> TRUE],
     [type |-> "StartStopMsg", running |-> FALSE],
     [type |-> "KeyMsg", key |-> "enter"], [type |-> "KeyMsg", key |-> "sound"],
     [type |-> "KeyMsg", key |-> "esc"], [type |-> "KeyMsg", key |-> "togglePlay"],
     [type |-> "KeyMsg", key |-> "quit"], [type |-> "WindowSizeMsg"]}

\* t.Persist(): the record of the current session is written, unless the
\* write fails
Persist(t, fault) ==
    IF fault THEN [t |-> t, err |-> ErrIO]
    ELSE [t |-> [t EXCEPT !.stored = t.stored \cup {t.current}], err |-> NoErr]

\* t.new(): the next session becomes the current one; it waits for ENTER
\* when it is not started automatically
new(t, wait) ==
    [t EXCEPT !.current = t.current + 1,
              !.waitForNextSession = wait,
              !.running = ~wait]

\* Timer.Update(msg): the Timer after the message, the error Persist
\* returned inside the handler (persistErr) and the error the handler hands
\* to its caller (err): Update returns a model and a command, and the error
\* of every call of Persist is assigned to the blank identifier
HandleMsg(t, msg, fault, wait) ==
    IF msg.type = "StartStopMsg"
    THEN IF msg.running
         THEN [t |-> [t EXCEPT !.running = TRUE], persistErr |-> NoErr,
               err |-> NoErr]
         ELSE LET r == Persist([t EXCEPT !.running = FALSE], fault)
              IN  [t |-> r.t, persistErr |-> r.err, err |-> NoErr]
    ELSE IF msg.type = "TimeoutMsg"
    THEN LET r == Persist(t, fault)
         IN  [t |-> new(r.t, wait), persistErr |-> r.err, err |-> NoErr]
    ELSE IF msg.type = "KeyMsg" /\ msg.key = "enter" /\ t.settings = ""
    THEN [t |-> [t EXCEPT !.waitForNextSession = FALSE, !.running = TRUE],
          persistErr |-> NoErr, err |-> NoErr]
    ELSE IF msg.type = "KeyMsg" /\ msg.key = "sound"
    THEN [t |-> [t EXCEPT !.settings = soundView], persistErr |-> NoErr,
          err |-> NoErr]
    ELSE IF msg.type = "KeyMsg" /\ msg.key = "esc"
    THEN [t |-> [t EXCEPT !.settings = ""], persistErr |-> NoErr, err |-> NoErr]
    ELSE IF msg.type = "KeyMsg" /\ msg.key = "quit"
    THEN LET r == Persist(t, fault)
         IN  [t |-> [r.t EXCEPT !.quit = TRUE], persistErr |-> r.err,
              err |-> NoErr]
    ELSE [t |-> t, persistErr |-> NoErr, err |-> NoErr]

----------------------------------------------------------------------------
(* Inputs *)

Configs == {"cfgA", "cfgB"}

\* a session is open (zero end time) or ended two or three hours after its
\* start
EndTimes(start) ==
    {ZeroTime, Time(start.h + 2, 0, start.off), Time(start.h + 3, 0, start.off)}

\* the sessions written while range queries are exercised
SessionInputs ==
    UNION {{Session(t, e, <<>>) : e \in EndTimes(t)} : t \in Times}

\* the sessions written while tag filters are exercised: open sessions tagged
\* "b", ended sessions tagged "a" and "b"
TaggedSessionInputs ==
    {Session(t, ZeroTime, <<"b">>) : t \in Times}
        \cup {Session(t, Time(t.h + 2, 0, t.off), <<"a", "b">>) : t \in Times}

QueryTags == {<<>>, <<"a">>, <<"a", "b">>}

\* the sessions written while the timer bucket is exercised
TimerSessionInputs ==
    {Session(Time(h, 0, 0), e, <<>>) : h \in 1..2, e \in {ZeroTime, Time(3, 0, 0)}}

\* the start times written and deleted while deletions are exercised
DeleteTimes == {Time(1, 0, 0), Time(2, 0, 0), Time(2, 0, -1)}

DeleteSessionInputs == {Session(t, ZeroTime, <<>>) : t \in DeleteTimes}

\* lists of start times of at most n elements
RECURSIVE SeqsUpTo(_, _)
SeqsUpTo(S, n) ==
    IF n = 0 THEN {<<>>}
    ELSE SeqsUpTo(S, n - 1) \cup
         {Append(s, x) : s \in {q \in SeqsUpTo(S, n - 1) : Len(q) = n - 1}, x \in S}

----------------------------------------------------------------------------
(* Actions *)

\* the state after NewClient has returned a Client to process 1
Init ==
    /\ sessions = EmptyBucket
    /\ timer = EmptyBucket
    /\ lastSave = <<>>
    /\ ret = [op |-> "NewClient", p |-> 1, fault |-> "none", err |-> NoErr,
              client |-> "client"]
    /\ codec = [pc |-> "idle"]
    /\ procs = [p \in Procs |-> IF p = 1 THEN Holder ELSE Closed]
    /\ focus = EmptyBucket
    /\ migrated = FALSE
    /\ machine = [pc |-> "off"]
    /\ tui = [pc |-> "off"]

\* NewClient of the first version, called by process p: openDB, then the
\* transaction that creates the two buckets, which leaves buckets that exist
\* as they are; when that transaction fails (txFault = 1) nil is returned
\* and the database stays open
NewClient(p, fault, txFault) ==
    /\ LET o == openDB(LockHeld(procs), fault)
       IN  IF o.err # NoErr
           THEN /\ procs' = procs
                /\ ret' = [op |-> "NewClient", p |-> p, fault |-> fault,
                           err |-> o.err, client |-> "nil"]
           ELSE IF txFault = 1
           THEN /\ procs' = [procs EXCEPT ![p] = [db |-> TRUE, client |-> "nil"]]
                /\ ret' = [op |-> "NewClient", p |-> p, fault |-> fault,
                           err |-> ErrIO, client |-> "nil"]
           ELSE /\ procs' = [procs EXCEPT ![p] = Holder]
                /\ ret' = [op |-> "NewClient", p |-> p, fault |-> fault,
                           err |-> NoErr, client |-> "client"]
    /\ UNCHANGED <<sessions, timer, lastSave, codec, focus, migrated, machine, tui>>

\* Client.Open of the first version: the Client is set only when openDB
\* returns no error
Open(p, fault) ==
    /\ LET o == openDB(LockHeld(procs), fault)
       IN  /\ procs' = IF o.err # NoErr THEN procs
                       ELSE [procs EXCEPT ![p] = ClientOf(o.db)]
           /\ ret' = [op |-> "Open", p |-> p, fault |-> fault, err |-> o.err,
                      client |-> IF o.err # NoErr THEN procs[p].client
                                 ELSE ClientOf(o.db).client]
    /\ UNCHANGED <<sessions, timer, lastSave, codec, focus, migrated, machine, tui>>

\* Client.Open of the second version
OpenV2(p, fault) ==
    /\ LET o == openDBV2(LockHeld(procs), fault)
       IN  /\ procs' = IF o.err # NoErr THEN procs
                       ELSE [procs EXCEPT ![p] = ClientOf(o.db)]
           /\ ret' = [op |-> "OpenV2", p |-> p, fault |-> fault, err |-> o.err,
                      client |-> IF o.err # NoErr THEN procs[p].client
                                 ELSE ClientOf(o.db).client]
    /\ UNCHANGED <<sessions, timer, lastSave, codec, focus, migrated, machine, tui>>

\* NewClient of the second version, called by process p: openDB; the
\* transaction that creates the buckets (it fails when f1 = 1, and nil is
\* returned while the database stays open); the schema guard transaction,
\* whose error is returned together with the Client. db.Update on the nil
\* database that openDB returns for a dropped error ends the process with a
\* nil pointer dereference
NewClientV2(p, fault, f1, f2) ==
    /\ LET o == openDBV2(LockHeld(procs), fault)
           t == SchemaGuardTx(timer, focus, f2)
           g == UpdateBoth(timer, focus, t, f2)
       IN  IF o.err # NoErr
           THEN /\ procs' = procs
                /\ ret' = [op |-> "NewClientV2", p |-> p, fault |-> fault,
                           err |-> o.err, client |-> "nil", ran |-> FALSE,
                           log |-> <<>>]
                /\ UNCHANGED <<timer, focus, migrated>>
           ELSE IF ~o.db
           THEN /\ procs' = [procs EXCEPT ![p] = Closed]
                /\ ret' = [op |-> "NewClientV2", p |-> p, fault |-> fault,
                           err |-> ErrPanic, client |-> "nil", ran |-> FALSE,
                           log |-> <<>>]
                /\ UNCHANGED <<timer, focus, migrated>>
           ELSE IF f1 = 1
           THEN /\ procs' = [procs EXCEPT ![p] = [db |-> TRUE, client |-> "nil"]]
                /\ ret' = [op |-> "NewClientV2", p |-> p, fault |-> fault,
                           err |-> ErrIO, client |-> "nil", ran |-> FALSE,
                           log |-> <<>>]
                /\ UNCHANGED <<timer, focus, migrated>>
           ELSE /\ procs' = [procs EXCEPT ![p] = Holder]
                /\ ret' = [op |-> "NewClientV2", p |-> p, fault |-> fault,
                           err |-> g.err, client |-> "client", ran |-> t.ran,
                           log |-> t.log]
                /\ timer' = g.tb
                /\ focus' = g.fb
                /\ migrated' = (migrated \/ (g.err = NoErr /\ t.ran))
    /\ UNCHANGED <<sessions, lastSave, codec, machine, tui>>

\* init and Store.init of db.go, run when process p starts: bolt.Open, then
\* the transaction that creates the buckets; on an error init reports it
\* (running: with the message that one instance only can be active) and
\* ends the process, which closes its database
StoreInit(p, fault, txFault) ==
    /\ procs[p] = Closed
    /\ LET o   == BoltOpen(LockHeld(procs), fault)
           err == IF o.err # NoErr THEN o.err
                  ELSE IF txFault = 1 THEN ErrIO ELSE NoErr
       IN  /\ procs' = IF err # NoErr THEN procs
                       ELSE [procs EXCEPT ![p] = Holder]
           /\ ret' = [op |-> "init", p |-> p, fault |-> fault, err |-> err,
                      running |-> err \in {ErrDatabaseOpen, ErrTimeout},
                      client |-> IF err # NoErr THEN "nil" ELSE "client"]
    /\ UNCHANGED <<sessions, timer, lastSave, codec, focus, migrated, machine, tui>>

\* bolt.DB.Close through the Client, or the end of the process: the
\* database of p is closed and the lock on the file released
Close(p) ==
    /\ procs[p] # Closed
    /\ procs' = [procs EXCEPT ![p] = Closed]
    /\ ret' = [op |-> "Close", p |-> p, err |-> NoErr]
    /\ UNCHANGED <<sessions, timer, lastSave, codec, focus, migrated, machine, tui>>

\* faultAt names the write of the transaction that fails: 0 for none, n for
\* the n-th Put or Delete, one more than the number of writes for the commit
UpdateSession(sess, faultAt) ==
    /\ SessionKey(sess) \in DOMAIN sessions
            \/ Cardinality(DOMAIN sessions) < MaxRecords
    /\ LET r == Update(sessions, UpdateSessionTx(sessions, sess, faultAt),
                       faultAt = 2)
       IN  /\ sessions' = r.b
           /\ ret' = [op |-> "UpdateSession", sess |-> sess, err |-> r.err]
    /\ UNCHANGED <<timer, lastSave, codec>>
    /\ UNCHANGED others

\* the maps given to UpdateSessions: sets of sessions with pairwise different
\* start times (the map keys), of at most MaxBatch entries
SessionMaps ==
    {m \in SUBSET SessionInputs :
        /\ Cardinality(m) <= MaxBatch
        /\ \A x \in m : \A y \in m : x # y => x.StartTime # y.StartTime}

\* UpdateSessions of the second version: the body of the range loop ends
\* with `return c.Update(...)`, so the call returns in the first iteration,
\* with the entry the range over the map yields first (any entry: the order
\* of a range over a map is not fixed); an empty map returns nil
UpdateSessions(m, first, faultAt) ==
    /\ m # {} => first \in m
    /\ m = {} => first = Nil
    /\ \A x \in m : SessionKey(x) \in DOMAIN sessions
            \/ Cardinality(DOMAIN sessions) < MaxRecords
    /\ LET r == IF m = {}
                THEN [b |-> sessions, err |-> NoErr]
                ELSE Update(sessions, UpdateSessionTx(sessions, first, faultAt),
                            faultAt = 2)
       IN  /\ sessions' = r.b
           /\ ret' = [op |-> "UpdateSessions", m |-> m, err |-> r.err]
    /\ UNCHANGED <<timer, lastSave, codec>>
    /\ UNCHANGED others

DeleteSessions(startTimes, faultAt) ==
    /\ LET r == Update(sessions,
                       DeleteSessionsTx(sessions, startTimes, 1, faultAt),
                       faultAt = Len(startTimes) + 1)
       IN  /\ sessions' = r.b
           /\ ret' = [op |-> "DeleteSessions", startTimes |-> startTimes,
                      faultAt |-> faultAt, err |-> r.err]
    /\ UNCHANGED <<timer, lastSave, codec>>
    /\ UNCHANGED others

GetSessions(startTime, endTime, tags) ==
    /\ LET r == GetSessionsView(sessions, startTime, endTime, tags)
       IN  ret' = [op |-> "GetSessions", startTime |-> startTime,
                   endTime |-> endTime, tags |-> tags,
                   out |-> r.out, err |-> r.err]
    /\ UNCHANGED <<sessions, timer, lastSave, codec>>
    /\ UNCHANGED others

getSessions(startTime, endTime) ==
    /\ LET r == getSessionsView(sessions, startTime, endTime)
       IN  ret' = [op |-> "getSessions", startTime |-> startTime,
                   endTime |-> endTime, out |-> r.out, err |-> r.err]
    /\ UNCHANGED <<sessions, timer, lastSave, codec>>
    /\ UNCHANGED others

\* GetSessions of the second version
GetSessionsV2(since, until, tags) ==
    /\ LET r == GetSessionsViewV2(sessions, since, until, tags)
       IN  ret' = [op |-> "GetSessionsV2", startTime |-> since,
                   endTime |-> until, tags |-> tags,
                   out |-> r.out, err |-> r.err]
    /\ UNCHANGED <<sessions, timer, lastSave, codec>>
    /\ UNCHANGED others

\* Store.updateSession(key, value) of db.go: the bytes the caller gives are
\* stored as they are
updateSession(key, value) ==
    /\ key \in DOMAIN sessions \/ Cardinality(DOMAIN sessions) < MaxRecords
    /\ sessions' = BucketPut(sessions, key, value)
    /\ ret' = [op |-> "updateSession", err |-> NoErr]
    /\ UNCHANGED <<timer, lastSave, codec>>
    /\ UNCHANGED others

SaveTimer(sessionKey, opts, workCycle, faultAt) ==
    /\ LET r == Update(timer,
                       SaveTimerTx(timer, MarshalTimer(opts, workCycle),
                                   sessionKey, faultAt),
                       faultAt = 3)
       IN  /\ timer' = r.b
           /\ ret' = [op |-> "SaveTimer", faultAt |-> faultAt, err |-> r.err]
           /\ lastSave' = IF r.err = NoErr
                          THEN <<[sessionKey |-> sessionKey, opts |-> opts,
                                  workCycle |-> workCycle]>>
                          ELSE lastSave
    /\ UNCHANGED <<sessions, codec>>
    /\ UNCHANGED others

DeleteTimer(faultAt) ==
    /\ LET r == Update(timer, DeleteTimerTx(timer, faultAt), faultAt = 3)
       IN  /\ timer' = r.b
           /\ ret' = [op |-> "DeleteTimer", err |-> r.err]
           /\ lastSave' = IF r.err = NoErr THEN <<>> ELSE lastSave
    /\ UNCHANGED <<sessions, codec>>
    /\ UNCHANGED others

\* variant: the snapshot is not deleted after the View
GetInterruptedNoDelete(faultAt) ==
    /\ LET v == GetInterruptedView(timer, sessions)
       IN  /\ timer' = timer
           /\ ret' = [op |-> "GetInterrupted", faultAt |-> faultAt,
                      opts |-> v.opts, sess |-> v.sess,
                      workCycle |-> v.workCycle, err |-> v.err]
           /\ lastSave' = lastSave
    /\ UNCHANGED <<sessions, codec>>
    /\ UNCHANGED others

\* the View, and after a View without error the call of DeleteTimer, whose
\* error is the error of GetInterrupted
GetInterrupted(faultAt) ==
    /\ LET v == GetInterruptedView(timer, sessions)
           r == IF v.err # NoErr
                THEN [b |-> timer, err |-> v.err]
                ELSE Update(timer, DeleteTimerTx(timer, faultAt), faultAt = 3)
       IN  /\ timer' = r.b
           /\ ret' = [op |-> "GetInterrupted", faultAt |-> faultAt,
                      opts |-> v.opts, sess |-> v.sess,
                      workCycle |-> v.workCycle, err |-> r.err]
           /\ lastSave' = IF r.err = NoErr THEN <<>> ELSE lastSave
    /\ UNCHANGED <<sessions, codec>>
    /\ UNCHANGED others

\* variant: the load is attempted whatever the flags
AttemptsResumeAlways(numFlags) == TRUE

\* the Action of the timer command tries to resume only when it is run
\* without flags (ctx.NumFlags() == 0)
AttemptsResume(numFlags) == numFlags = 0

\* the Action of the timer command on an open store: without flags
\* GetInterrupted is called and the run is t.Resume() when it returns no
\* error; in every other case a timer is built from the configuration and
\* run (t.Run())
Action(numFlags, faultAt) ==
    /\ LET attempted == AttemptsResume(numFlags)
           v == GetInterruptedView(timer, sessions)
           r == IF ~attempted
                THEN [b |-> timer, err |-> "not called"]
                ELSE IF v.err # NoErr
                THEN [b |-> timer, err |-> v.err]
                ELSE Update(timer, DeleteTimerTx(timer, faultAt), faultAt = 3)
           resumed == attempted /\ r.err = NoErr
       IN  /\ timer' = r.b
           /\ ret' = [op |-> "Action", flags |-> numFlags, faultAt |-> faultAt,
                      attempted |-> attempted, err |-> r.err,
                      mode |-> IF resumed THEN "Resumed" ELSE "Fresh"]
           /\ lastSave' = IF resumed THEN <<>> ELSE lastSave
    /\ UNCHANGED <<sessions, codec>>
    /\ UNCHANGED others

\* the key codec applied to two start times
FormatKeys ==
    /\ codec.pc = "input"
    /\ codec' = [pc |-> "keys", a |-> codec.a, b |-> codec.b,
                 ka |-> FormatRFC3339(codec.a), kb |-> FormatRFC3339(codec.b)]
    /\ UNCHANGED <<sessions, timer, lastSave, ret>>
    /\ UNCHANGED others

\* the first call of start: the run begins with a pomodoro
Run ==
    /\ machine.pc = "new"
    /\ machine' = Start(machine, pomodoro)
    /\ UNCHANGED <<sessions, timer, lastSave, ret, codec, procs, focus, migrated, tui>>

\* variant: the run ends when the counter has reached maxPomodoros or more
TimeoutAtLeast ==
    /\ machine.pc = "countdown"
    /\ machine.counter < MaxCounter
    /\ LET t == [machine EXCEPT !.works = IF machine.currentSession = pomodoro
                                          THEN machine.works + 1
                                          ELSE machine.works]
       IN  machine' = IF t.counter >= t.maxPomodoros
                      THEN [t EXCEPT !.pc = "done"]
                      ELSE IF WaitsForEnter(t)
                      THEN [t EXCEPT !.pc = "enter"]
                      ELSE Start(t, nextSession(t))
    /\ UNCHANGED <<sessions, timer, lastSave, ret, codec, procs, focus, migrated, tui>>

\* the countdown of the current session reaches zero: the session is
\* finished, start returns when the counter equals maxPomodoros, else it
\* waits for ENTER or goes on to start(t.nextSession())
Timeout ==
    /\ machine.pc = "countdown"
    /\ machine.counter < MaxCounter
    /\ LET t == [machine EXCEPT !.works = IF machine.currentSession = pomodoro
                                          THEN machine.works + 1
                                          ELSE machine.works]
       IN  machine' = IF t.counter = t.maxPomodoros
                      THEN [t EXCEPT !.pc = "done"]
                      ELSE IF WaitsForEnter(t)
                      THEN [t EXCEPT !.pc = "enter"]
                      ELSE Start(t, nextSession(t))
    /\ UNCHANGED <<sessions, timer, lastSave, ret, codec, procs, focus, migrated, tui>>

\* ENTER is read: start(t.nextSession())
Enter ==
    /\ machine.pc = "enter"
    /\ machine' = Start(machine, nextSession(machine))
    /\ UNCHANGED <<sessions, timer, lastSave, ret, codec, procs, focus, migrated, tui>>


\* one message handled by Timer.Update; the program ends after quit
TimerUpdate(msg, fault, wait) ==
    /\ tui.pc = "on"
    /\ ~tui.quit
    /\ msg.type = "TimeoutMsg" => tui.current < MaxCurrent
    /\ LET r == HandleMsg(tui, msg, fault, wait)
       IN  /\ tui' = r.t
           /\ ret' = [op |-> "Update", msg |-> msg, persistErr |-> r.persistErr,
                      err |-> r.err]
    /\ UNCHANGED <<sessions, timer, lastSave, codec, procs, focus, migrated, machine>>

----------------------------------------------------------------------------
(* Specifications *)

\* the session store: writes and range queries without a tag filter
Next ==
    \/ \E sess \in SessionInputs : UpdateSession(sess, 0)
    \/ \E s \in Times, e \in Times : GetSessions(s, e, <<>>)
    \/ \E s \in Times, e \in Times : getSessions(s, e)

Spec == Init /\ [][Next]_vars

\* the session store: writes of tagged sessions and range queries with and
\* without a tag filter
NextTags ==
    \/ \E sess \in TaggedSessionInputs : UpdateSession(sess, 0)
    \/ \E s \in Times, e \in Times, tg \in QueryTags : GetSessions(s, e, tg)

SpecTags == Init /\ [][NextTags]_vars

\* the session store: writes and deletions, with failing transactions
NextDelete ==
    \/ \E sess \in DeleteSessionInputs, f \in 0..2 : UpdateSession(sess, f)
    \/ \E st \in SeqsUpTo(DeleteTimes, MaxDelete) :
            \E f \in 0..(Len(st) + 1) : DeleteSessions(st, f)

SpecDelete == Init /\ [][NextDelete]_vars

\* the timer bucket beside a small session bucket
TimerKeys == {SessionKey(s) : s \in TimerSessionInputs} \cup {Nil}

NextTimer ==
    \/ /\ Opened
       /\ \/ \E sess \in TimerSessionInputs, f \in 0..2 : UpdateSession(sess, f)
          \/ \E st \in SeqsUpTo({s.StartTime : s \in TimerSessionInputs}, 1) :
                DeleteSessions(st, 0)
          \/ \E k \in TimerKeys, o \in Configs, w \in 0..MaxWorkCycle, f \in 0..3 :
                SaveTimer(k, o, w, f)
          \/ \E f \in 0..3 : DeleteTimer(f)
          \/ \E f \in 0..3 : GetInterrupted(f)
          \/ \E n \in 0..MaxFlags, f \in 0..3 : Action(n, f)
    \/ Close(1)
    \/ NewClient(1, "none", 0)

SpecTimer == Init /\ [][NextTimer]_vars

\* opening and closing the database by two processes, with the first and
\* the second version of the store and with db.go: the database file is new,
\* or was written by the first version and holds a timer snapshot, or was
\* opened before by an older build of the second version
LegacyTimer ==
    BucketPut(BucketPut(EmptyBucket, TimerKey, MarshalTimer("cfgA", 1)),
              InterruptedSessionKey, Nil)

MigratedFocus ==
    BucketPut(BucketPut(BucketPut(EmptyBucket, VersionKey, OlderVersion),
                        CurrentName(TimerKey), MarshalTimer("cfgA", 1)),
              CurrentName(InterruptedSessionKey), Nil)

OpenSessionInputs == {Session(Time(1, 0, 0), ZeroTime, <<>>)}

\* writes of the schema guard transaction: two for each legacy key, one for
\* the marker; one more names the commit
GuardWrites == 2 * Len(LegacyKeys) + 1

InitOpen ==
    /\ sessions = EmptyBucket
    /\ \/ timer = EmptyBucket /\ focus = EmptyBucket
       \/ timer = LegacyTimer /\ focus = EmptyBucket
       \/ timer = EmptyBucket /\ focus = MigratedFocus
    /\ lastSave = <<>>
    /\ ret = [op |-> "none", err |-> NoErr]
    /\ codec = [pc |-> "idle"]
    /\ procs = [p \in Procs |-> Closed]
    /\ migrated = (VersionKey \in DOMAIN focus)
    /\ machine = [pc |-> "off"]
    /\ tui = [pc |-> "off"]

NextOpen ==
    \/ \E p \in Procs, fault \in BoltFaults, f \in 0..1 : NewClient(p, fault, f)
    \/ \E p \in Procs, fault \in BoltFaults : Open(p, fault)
    \/ \E p \in Procs, fault \in BoltFaults, f1 \in 0..1,
            f2 \in 0..(GuardWrites + 1) : NewClientV2(p, fault, f1, f2)
    \/ \E p \in Procs, fault \in BoltFaults : OpenV2(p, fault)
    \/ \E p \in Procs, fault \in BoltFaults, f \in 0..1 : StoreInit(p, fault, f)
    \/ \E p \in Procs : Close(p)
    \/ Opened /\ \E sess \in OpenSessionInputs : UpdateSession(sess, 0)

SpecOpen == InitOpen /\ [][NextOpen]_vars

\* the pomodoro timer, for every configuration and every setting of the
\* flags
ConfigFiles ==
    [LongBreakInterval : 0..MaxInterval, AutoStartPomorodo : BOOLEAN,
     AutoStartBreak : BOOLEAN]

Flags ==
    [longBreakInterval : {0, 2}, maxPomodoros : 0..MaxPomodoros,
     autoPomodoro : BOOLEAN, autoBreak : BOOLEAN]

InitMachine ==
    /\ sessions = EmptyBucket
    /\ timer = EmptyBucket
    /\ lastSave = <<>>
    /\ ret = [op |-> "none", err |-> NoErr]
    /\ codec = [pc |-> "idle"]
    /\ procs = [p \in Procs |-> Closed]
    /\ focus = EmptyBucket
    /\ migrated = FALSE
    /\ machine \in {newTimer(ctx, c) : ctx \in Flags, c \in ConfigFiles}
    /\ tui = [pc |-> "off"]

NextMachine ==
    \/ Run
    \/ Timeout
    \/ Enter

SpecMachine == InitMachine /\ [][NextMachine]_vars

\* the pomodoro timer when the ticker keeps ticking and the user presses
\* ENTER whenever the timer waits for it
SpecMachineLive ==
    /\ InitMachine
    /\ [][NextMachine]_vars
    /\ WF_vars(Run)
    /\ WF_vars(Timeout)
    /\ WF_vars(Enter)

\* the terminal program: a Timer that runs its first session
InitTui ==
    /\ sessions = EmptyBucket
    /\ timer = EmptyBucket
    /\ lastSave = <<>>
    /\ ret = [op |-> "none", err |-> NoErr]
    /\ codec = [pc |-> "idle"]
    /\ procs = [p \in Procs |-> IF p = 1 THEN Holder ELSE Closed]
    /\ focus = EmptyBucket
    /\ migrated = FALSE
    /\ machine = [pc |-> "off"]
    /\ tui = [pc |-> "on", current |-> 1, running |-> TRUE,
              waitForNextSession |-> FALSE, settings |-> "", quit |-> FALSE,
              stored |-> {}]

NextTui == \E msg \in Msgs, fault \in BOOLEAN, wait \in BOOLEAN : TimerUpdate(msg, fault, wait)

SpecTui == InitTui /\ [][NextTui]_vars

\* the session store with records that do not decode: the values are
\* written through Store.updateSession and read by both versions of
\* GetSessions
RawValues ==
    {Marshal(Session(t, ZeroTime, <<"a">>)) : t \in Times} \cup {Garbage}

RawKey(v) == IF v = Garbage THEN {FormatRFC3339(t) : t \in Times}
             ELSE {SessionKey(Unmarshal(v))}

NextMalformed ==
    \/ \E v \in RawValues : \E k \in RawKey(v) : updateSession(k, v)
    \/ \E s \in Times, e \in Times, tg \in {<<>>, <<"a">>} : GetSessions(s, e, tg)
    \/ \E s \in Times, e \in Times, tg \in {<<>>, <<"a">>} : GetSessionsV2(s, e, tg)

SpecMalformed == Init /\ [][NextMalformed]_vars

\* the session store of the second version: maps of sessions written by
\* UpdateSessions, and range queries
NextBatch ==
    \/ \E m \in SessionMaps, first \in SessionInputs \cup {Nil}, f \in 0..2 :
            UpdateSessions(m, first, f)
    \/ \E s \in Times, e \in Times : GetSessionsV2(s, e, <<>>)

SpecBatch == Init /\ [][NextBatch]_vars

\* the key codec on every pair of start times
InitCodec ==
    /\ sessions = EmptyBucket
    /\ timer = EmptyBucket
    /\ lastSave = <<>>
    /\ ret = [op |-> "NewClient", p |-> 1, fault |-> "none", err |-> NoErr,
              client |-> "client"]
    /\ codec \in {[pc |-> "input", a |-> a, b |-> b] : a \in CodecTimes, b \in CodecTimes}
    /\ procs = [p \in Procs |-> IF p = 1 THEN Holder ELSE Closed]
    /\ focus = EmptyBucket
    /\ migrated = FALSE
    /\ machine = [pc |-> "off"]
    /\ tui = [pc |-> "off"]

NextCodec == FormatKeys

SpecCodec == InitCodec /\ [][NextCodec]_vars

----------------------------------------------------------------------------
(* Properties of the range query *)

KeyLess(x, y) == BytesCompare(x, y) < 0

KeyLeq(x, y) == BytesCompare(x, y) <= 0

Stored(b, k) == Unmarshal(b[k])

Range(seq) == {seq[i] : i \in 1..Len(seq)}

\* the sessions returned by the last query, decoded
Returned ==
    IF ret.op = "getSessions"
    THEN [i \in 1..Len(ret.out) |-> Unmarshal(ret.out[i])]
    ELSE ret.out

IsQuery == ret.op \in {"GetSessions", "getSessions"}

\* keys inside the byte-wise window of the two formatted bounds
WindowKeys(b, since, until) ==
    {k \in DOMAIN b : KeyLeq(FormatRFC3339(since), k) /\ KeyLeq(k, FormatRFC3339(until))}

\* k is the greatest key below the key of since
IsLastBefore(b, k, since) ==
    /\ k \in DOMAIN b
    /\ KeyLess(k, FormatRFC3339(since))
    /\ \A x \in DOMAIN b : KeyLess(x, FormatRFC3339(since)) => KeyLeq(x, k)

\* the record before the window, when it ended after since
OverlapKeys(b, since, until) ==
    {k \in DOMAIN b : /\ IsLastBefore(b, k, since)
                      /\ After(Stored(b, k).EndTime, since)
                      /\ KeyLeq(k, FormatRFC3339(until))}

\* out lists the records of the keys K, each once, in increasing key order
IsListing(out, b, K) ==
    /\ Len(out) = Cardinality(K)
    /\ \A i \in 1..Len(out) :
            /\ SessionKey(out[i]) \in K
            /\ out[i] = Stored(b, SessionKey(out[i]))
    /\ \A i \in 1..Len(out) : \A j \in (i + 1)..Len(out) :
            KeyLess(SessionKey(out[i]), SessionKey(out[j]))

C2_EveryEarlierSession ==
    (/\ ret.op = "GetSessions"
     /\ ret.tags = <<>>
     /\ ~Before(ret.endTime, ret.startTime))
    => \A k \in DOMAIN sessions :
            Before(Stored(sessions, k).StartTime, ret.startTime)
            => (Stored(sessions, k) \in Range(ret.out)
                    <=> After(Stored(sessions, k).EndTime, ret.startTime))

\* C2 amended: of the stored sessions whose key is below key(since), a query
\* without tags whose key(until) is not below key(since) returns the one of
\* the greatest key if it ended after since, and no other: a session that
\* ended at or before since (or has a zero end time) and every session stored
\* further back are left out.
C2_OnlyTheSessionJustBefore ==
    (/\ ret.op = "GetSessions"
     /\ ret.tags = <<>>
     /\ KeyLeq(FormatRFC3339(ret.startTime), FormatRFC3339(ret.endTime)))
    => \A k \in DOMAIN sessions :
            KeyLess(k, FormatRFC3339(ret.startTime))
            => (Stored(sessions, k) \in Range(ret.out)
                    <=> /\ IsLastBefore(sessions, k, ret.startTime)
                        /\ After(Stored(sessions, k).EndTime, ret.startTime))

\* a query returned the session stored just before since, which ended after
\* since, while a session further back was left out
C2_Witness ==
    /\ ret.op = "GetSessions"
    /\ ret.tags = <<>>
    /\ KeyLeq(FormatRFC3339(ret.startTime), FormatRFC3339(ret.endTime))
    /\ \E k \in DOMAIN sessions :
            /\ IsLastBefore(sessions, k, ret.startTime)
            /\ Stored(sessions, k) \in Range(ret.out)
    /\ \E k \in DOMAIN sessions :
            /\ KeyLess(k, FormatRFC3339(ret.startTime))
            /\ Stored(sessions, k) \notin Range(ret.out)

\* a tag of the session occurs in the filter
TagsIntersect(sess, tags) ==
    \E i \in 1..Len(sess.Tags) : \E j \in 1..Len(tags) : sess.Tags[i] = tags[j]

\* keys of the sessions a query without tags returns
UnfilteredKeys(b, since, until) ==
    WindowKeys(b, since, until) \cup OverlapKeys(b, since, until)

\* C3: the sessions a query with a non-empty tag list returns are exactly
\* the sessions of the unfiltered query that have a tag of the list; with an
\* empty list they are the sessions of the unfiltered query.
C3_TagFilter ==
    ret.op = "GetSessions"
    => LET U == UnfilteredKeys(sessions, ret.startTime, ret.endTime)
           R == {SessionKey(ret.out[i]) : i \in 1..Len(ret.out)}
       IN  /\ \A i \in 1..Len(ret.out) :
                    /\ SessionKey(ret.out[i]) \in DOMAIN sessions
                    /\ ret.out[i] = Stored(sessions, SessionKey(ret.out[i]))
           /\ Len(ret.tags) # 0
                => R = {k \in U : TagsIntersect(Stored(sessions, k), ret.tags)}
           /\ Len(ret.tags) = 0 => R = U

\* a filtered query returned one session and left out another of the window
C3_Witness ==
    /\ ret.op = "GetSessions"
    /\ Len(ret.tags) # 0
    /\ Len(ret.out) > 0
    /\ \E k \in UnfilteredKeys(sessions, ret.startTime, ret.endTime) :
            ~TagsIntersect(Stored(sessions, k), ret.tags)

----------------------------------------------------------------------------
(* Properties of the key codec *)

\* C4 as stated: the byte order of the keys of two start times is their
\* chronological order, and the keys are equal exactly for equal instants.
C4_KeyOrderIsChronological ==
    codec.pc = "keys"
    => /\ BytesCompare(codec.ka, codec.kb) < 0 <=> Before(codec.a, codec.b)
       /\ codec.ka = codec.kb <=> Equal(codec.a, codec.b)

----------------------------------------------------------------------------
(* Properties of writes and deletions *)

\* keys named by a list of start times
NamedKeys(startTimes) == {FormatRFC3339(startTimes[i]) : i \in 1..Len(startTimes)}

\* C5: a successful UpdateSession leaves under the key of the session's
\* start time exactly the written session, whatever was stored there before,
\* adds no other key, and changes neither another session record nor the
\* timer bucket.
C5_UpdateSessionFrame ==
    [][(ret'.op = "UpdateSession" /\ ret'.err = NoErr)
        => LET k == FormatRFC3339(ret'.sess.StartTime)
           IN  /\ DOMAIN sessions' = DOMAIN sessions \cup {k}
               /\ Unmarshal(sessions'[k]) = ret'.sess
               /\ \A x \in DOMAIN sessions \ {k} : sessions'[x] = sessions[x]
               /\ timer' = timer]_vars

\* a session was written beside another record while a timer snapshot is
\* stored
C5_Witness ==
    /\ ret.op = "UpdateSession"
    /\ ret.err = NoErr
    /\ Cardinality(DOMAIN sessions) = 2
    /\ ret.sess.EndTime # ZeroTime
    /\ TimerKey \in DOMAIN timer

\* C6: DeleteSessions whose transaction meets no failure returns no error,
\* also when named keys are not stored; it removes exactly the named records
\* and keeps every other record; the same call made again returns no error
\* and changes nothing.
C6_DeleteIdempotent ==
    [][(ret'.op = "DeleteSessions" /\ ret'.faultAt = 0)
        => LET again == Update(sessions',
                               DeleteSessionsTx(sessions', ret'.startTimes, 1, 0),
                               FALSE)
           IN  /\ ret'.err = NoErr
               /\ DOMAIN sessions' = DOMAIN sessions \ NamedKeys(ret'.startTimes)
               /\ \A x \in DOMAIN sessions' : sessions'[x] = sessions[x]
               /\ again.err = NoErr
               /\ again.b = sessions']_vars

\* a deletion naming the same start time twice returned no error and left
\* another record in place: its second Delete met a key that was not stored
C6_Witness ==
    /\ ret.op = "DeleteSessions"
    /\ ret.faultAt = 0
    /\ ret.err = NoErr
    /\ Len(ret.startTimes) = 2
    /\ ret.startTimes[1] = ret.startTimes[2]
    /\ sessions # EmptyBucket

\* C7: a DeleteSessions call in which a Delete or the commit fails returns
\* the error and leaves the bucket as it was; after any call the bucket is
\* either unchanged or without all of the named records.
C7_DeleteAtomic ==
    [][ret'.op = "DeleteSessions"
        => /\ ret'.faultAt # 0 => (ret'.err # NoErr /\ sessions' = sessions)
           /\ ret'.err # NoErr => sessions' = sessions
           /\ \/ sessions' = sessions
              \/ DOMAIN sessions' = DOMAIN sessions \ NamedKeys(ret'.startTimes)]_vars

\* the second Delete of a call failed after the first had removed a stored
\* record, and that record is in the bucket
C7_Witness ==
    /\ ret.op = "DeleteSessions"
    /\ ret.faultAt = 2
    /\ ret.err # NoErr
    /\ Len(ret.startTimes) = 2
    /\ FormatRFC3339(ret.startTimes[1]) \in DOMAIN sessions

----------------------------------------------------------------------------
(* Properties of the timer bucket *)

\* C8: a GetInterrupted that returns no error returns the config and the
\* work cycle of the last successful SaveTimer and the session stored under
\* the key that call named (none when no record is stored under it).
C8_LoadsLastSave ==
    [][(ret'.op = "GetInterrupted" /\ ret'.err = NoErr)
        => /\ lastSave # <<>>
           /\ ret'.opts = <<lastSave[1].opts>>
           /\ ret'.workCycle = lastSave[1].workCycle
           /\ ret'.sess = IF lastSave[1].sessionKey \in DOMAIN sessions
                          THEN <<Stored(sessions, lastSave[1].sessionKey)>>
                          ELSE <<>>]_vars

\* a load returned the second config, a work cycle above zero and a session
C8_Witness ==
    /\ ret.op = "GetInterrupted"
    /\ ret.err = NoErr
    /\ ret.opts = <<"cfgB">>
    /\ ret.workCycle = MaxWorkCycle
    /\ ret.sess # <<>>

\* C9: GetInterrupted returns errNoPausedSession exactly when no snapshot is
\* stored, which is the case exactly when no save is pending (none made, or
\* the last one deleted or loaded); a load without error leaves no snapshot,
\* so that the next load returns errNoPausedSession; a load with an error
\* leaves the timer bucket as it was.
C9_ConsumedOnce ==
    [][ret'.op = "GetInterrupted"
        => /\ ret'.err = ErrNoPausedSession <=> TimerKey \notin DOMAIN timer
           /\ TimerKey \notin DOMAIN timer <=> lastSave = <<>>
           /\ ret'.err = NoErr
                => /\ TimerKey \notin DOMAIN timer'
                   /\ GetInterruptedView(timer', sessions').err = ErrNoPausedSession
           /\ ret'.err # NoErr => timer' = timer]_vars

\* a load succeeded and the timer bucket is empty
C9_Witness ==
    /\ ret.op = "GetInterrupted"
    /\ ret.err = NoErr
    /\ ret.opts # <<>>
    /\ timer = EmptyBucket

\* C10: the snapshot and the session key are both stored or both absent.
C10_PairAtomic ==
    TimerKey \in DOMAIN timer <=> InterruptedSessionKey \in DOMAIN timer

\* a SaveTimer whose second Put failed left the bucket without either value
C10_Witness ==
    /\ ret.op = "SaveTimer"
    /\ ret.faultAt = 2
    /\ ret.err # NoErr
    /\ timer = EmptyBucket

\* C11: when a snapshot is stored and no session record is stored under the
\* key it names, GetInterrupted does not return errNoPausedSession; when no
\* write of its DeleteTimer fails it returns no error, the config and the
\* work cycle of the last save, and no session (nil).
C11_ResumeWithoutSession ==
    [][(/\ ret'.op = "GetInterrupted"
        /\ TimerKey \in DOMAIN timer
        /\ BucketGet(timer, InterruptedSessionKey) \notin DOMAIN sessions)
        => /\ ret'.err # ErrNoPausedSession
           /\ ret'.sess = <<>>
           /\ ret'.faultAt = 0
                => /\ ret'.err = NoErr
                   /\ lastSave # <<>>
                   /\ ret'.opts = <<lastSave[1].opts>>
                   /\ ret'.workCycle = lastSave[1].workCycle]_vars

\* a load returned a config and a work cycle, no session and no error while
\* another session record is stored
C11_Witness ==
    /\ ret.op = "GetInterrupted"
    /\ ret.err = NoErr
    /\ ret.opts = <<"cfgA">>
    /\ ret.workCycle = MaxWorkCycle
    /\ ret.sess = <<>>
    /\ sessions # EmptyBucket

----------------------------------------------------------------------------
(* Properties of opening the database *)

OpenOps == {"NewClient", "Open", "NewClientV2", "OpenV2", "init"}

\* C12: at most one process holds the database open; an open call made
\* while a database is open (and whose own opening of the file does not
\* fail) returns errFocusRunning (init reports that one instance only can
\* be active), gives the caller no Client and changes neither the Clients
\* of the processes nor the stored data.
C12_SingleWriter ==
    [][/\ Cardinality({q \in Procs : procs'[q].db}) <= 1
       /\ (ret'.op \in OpenOps /\ LockHeld(procs) /\ ret'.fault # "file")
            => /\ IF ret'.op = "init" THEN ret'.running
                  ELSE ret'.err = ErrFocusRunning
               /\ ret'.op \in {"NewClient", "NewClientV2", "init"}
                    => ret'.client = "nil"
               /\ procs' = procs
               /\ sessions' = sessions
               /\ timer' = timer
               /\ focus' = focus]_vars

\* the second process was refused while the first holds its Client on a
\* database with a session record
C12_Witness ==
    /\ ret.op = "NewClientV2"
    /\ ret.p = 2
    /\ ret.err = ErrFocusRunning
    /\ procs[1] = Holder
    /\ procs[2] = Closed
    /\ sessions # EmptyBucket

\* C13 as stated: when bolt.Open fails with an I/O failure, openDB, Open and
\* NewClient return an error (the call does not end in a panic either), and
\* a call that returns no error leaves its caller with a Client on an open
\* database.
C13_OpenReportsFailure ==
    [][ret'.op \in {"NewClient", "Open", "NewClientV2", "OpenV2"}
        => /\ BoltOpen(LockHeld(procs), ret'.fault).err = ErrIO
                => ret'.err \notin {NoErr, ErrPanic}
           /\ ret'.err = NoErr => procs'[ret'.p] = Holder]_vars

\* C14: a NewClient (second version) that returns no error leaves the
\* marker equal to the version of the build; the migration runs only in an
\* open that found no marker, and in every such open that returns no error;
\* the marker is written after the migration; the migration does not run in
\* a successful open after it ran in an earlier successful open.
C14_SchemaGuard ==
    [][ret'.op = "NewClientV2"
        => /\ ret'.err = NoErr => VersionOf(focus') = ConfigVersion
           /\ ret'.ran => VersionKey \notin DOMAIN focus
           /\ (ret'.err = NoErr /\ VersionKey \notin DOMAIN focus) => ret'.ran
           /\ ret'.ran => ret'.log \in {<<"migrate">>, <<"migrate", "version">>}
           /\ (ret'.err = NoErr /\ ret'.ran) => ~migrated]_vars

\* an open migrated the legacy timer snapshot and then wrote the marker
C14_Witness ==
    /\ ret.op = "NewClientV2"
    /\ ret.err = NoErr
    /\ ret.ran
    /\ ret.log = <<"migrate", "version">>
    /\ timer = EmptyBucket
    /\ CurrentName(TimerKey) \in DOMAIN focus
    /\ VersionOf(focus) = ConfigVersion
    /\ migrated

\* C15 as stated: a NewClient (second version) whose schema guard ran the
\* migration and failed returns an error and no Client, leaves the marker
\* absent and leaves the buckets as they were.
C15_MigrationFailureAbortsOpen ==
    [][(ret'.op = "NewClientV2" /\ ret'.ran /\ ret'.err # NoErr)
        => /\ ret'.client = "nil"
           /\ VersionKey \notin DOMAIN focus'
           /\ focus' = focus
           /\ timer' = timer]_vars

----------------------------------------------------------------------------
(* Properties of the pomodoro timer *)

C17_DoneAtNthPomodoro ==
    (machine.pc # "new" /\ machine.maxPomodoros > 0)
    => /\ machine.pc = "done" => machine.works = machine.maxPomodoros
       /\ machine.works >= machine.maxPomodoros
            => /\ machine.pc = "done"
               /\ machine.log[Len(machine.log)].session = pomodoro

----------------------------------------------------------------------------
(* Properties of Timer.Update *)

\* C19 as stated: when Persist fails in the handling of a timeout, a pause
\* or a quit, the handler hands the error to its caller and the current
\* session stays the current one.
C19_PersistFailureBlocks ==
    [][(ret'.op = "Update" /\ ret'.persistErr # NoErr)
        => /\ ret'.err # NoErr
           /\ tui'.current = tui.current]_vars

----------------------------------------------------------------------------
(* Properties of GetSessions on records that do not decode *)

\* the stored records a scan meets: the one before the window and those
\* inside it
MetKeys(b, since, until) ==
    {k \in DOMAIN b : IsLastBefore(b, k, since)} \cup WindowKeys(b, since, until)

\* C20 as stated: a GetSessions call whose scan meets a record that does not
\* decode returns an error; a call that returns no error returns every
\* session of the window that passes the tag filter.
C20_DecodeErrorReturned ==
    ret.op \in {"GetSessions", "GetSessionsV2"}
    => /\ (\E k \in MetKeys(sessions, ret.startTime, ret.endTime) :
                UnmarshalErr(sessions[k]) # NoErr)
            => ret.err # NoErr
       /\ ret.err = NoErr
            => \A k \in WindowKeys(sessions, ret.startTime, ret.endTime) :
                    /\ UnmarshalErr(sessions[k]) = NoErr
                    /\ (ret.tags = <<>> \/ TagsIntersect(Stored(sessions, k), ret.tags))
                        => Stored(sessions, k) \in Range(ret.out)

----------------------------------------------------------------------------
(* Properties of the start of the timer command *)

----------------------------------------------------------------------------
(* Properties of the query range *)

\* C22: a query whose until is before since is rejected before the store is
\* read; in particular GetSessions(since, until, tags) with until before
\* since returns no session.
C22_InvertedRangeReturnsNothing ==
    (/\ ret.op \in {"GetSessions", "GetSessionsV2"}
     /\ Before(ret.endTime, ret.startTime))
    => Len(ret.out) = 0

----------------------------------------------------------------------------
(* Properties of the pomodoro timer: unlimited runs and the wait for ENTER *)

\* C23: with maxPomodoros = 0 the timer is never done, and after every
\* session another session is started (as far as the runs are followed:
\* MaxCounter sessions), when ENTER is pressed whenever the timer waits.
C23_UnlimitedNeverDone ==
    /\ [](machine.maxPomodoros = 0 => machine.pc # "done")
    /\ \A n \in 0..(MaxCounter - 1) :
            (machine.maxPomodoros = 0 /\ machine.counter = n)
                ~> (machine.counter = n + 1)

\* an unlimited run without auto-start has started MaxCounter sessions
C23_Witness ==
    /\ machine.maxPomodoros = 0
    /\ ~machine.autoStartBreak
    /\ ~machine.autoStartPomodoro
    /\ machine.pc = "countdown"
    /\ machine.counter = MaxCounter
    /\ machine.works >= 4

\* the auto-start flag that matches the session that has just ended
MatchingFlag(t) ==
    IF t.currentSession = pomodoro THEN t.autoStartBreak ELSE t.autoStartPomodoro

\* C24: when a session ends and the timer is not done, the next session
\* starts at once if and only if the matching flag is set (autoStartBreak
\* after a pomodoro, autoStartPomodoro after a break); otherwise the timer
\* waits and the next session starts only when a line has been read; a
\* timer that is done asks for no input and starts nothing.
C24_AutoStartGating ==
    [][/\ machine.pc = "countdown"
            => \/ machine'.pc = "done"
               \/ /\ MatchingFlag(machine)
                  /\ machine'.pc = "countdown"
                  /\ Len(machine'.log) = Len(machine.log) + 1
               \/ /\ ~MatchingFlag(machine)
                  /\ machine'.pc = "enter"
                  /\ machine'.log = machine.log
       /\ machine.pc = "enter"
            => /\ machine'.pc = "countdown"
               /\ Len(machine'.log) = Len(machine.log) + 1
       /\ machine.pc = "done" => machine' = machine]_vars

\* with auto-start of pomodoros only, the timer waits after its second
\* pomodoro, which followed the break without a wait
C24_Witness ==
    /\ machine.pc = "enter"
    /\ machine.currentSession = pomodoro
    /\ ~machine.autoStartBreak
    /\ machine.autoStartPomodoro
    /\ machine.counter = 3

----------------------------------------------------------------------------
(* Properties of UpdateSessions *)

\* C25: after UpdateSessions(m) has returned without error, the store holds
\* every session of m under the key of its start time, whatever the number
\* of entries of m.
C25_StoresEveryEntry ==
    (ret.op = "UpdateSessions" /\ ret.err = NoErr)
    => \A x \in ret.m :
            /\ SessionKey(x) \in DOMAIN sessions
            /\ Stored(sessions, SessionKey(x)) = x

----------------------------------------------------------------------------
(* Properties of the result list *)

\* C26: the list GetSessions returns has strictly increasing start times
\* (taken in the order of their keys), so every stored session appears at
\* most once, also when several of its tags occur in the tag filter.
C26_NoDuplicates ==
    ret.op \in {"GetSessions", "GetSessionsV2"}
    => \A i \in 1..Len(ret.out) : \A j \in (i + 1)..Len(ret.out) :
            KeyLess(SessionKey(ret.out[i]), SessionKey(ret.out[j]))

----------------------------------------------------------------------------
(* Properties of the iteration *)

\* the long breaks among the sessions started
LongBreaks(log) == {i \in 1..Len(log) : log[i].session = longBreak}

\* the n-th session of an unlimited run follows a longBreakInterval-th
\* pomodoro
LongBreakDue(n) ==
    machine.maxPomodoros = 0 /\ n % (2 * machine.longBreakInterval) = 0

\* the n-th session has started and is a long break
LongBreakTaken(n) ==
    Len(machine.log) >= n /\ machine.log[n].session = longBreak

====
